---- MODULE Spec2Model ----
(***************************************************************************)
(* Model of the perturbative foot-point demo of peridetic:                 *)
(*   src/tests/demoExcess.cpp  (SampleSpec, samplesFor, Samples,           *)
(*                              meridianPlaneSamples, test1,               *)
(*                              zetaCoefficients, pVecViaExcess, checkXYZ, *)
(*                              test2, main)                               *)
(*   src/tests/periSim.h       (SampleSpec with deltaFor,                  *)
(*                              samplesAccordingTo, meridianPlaneSamples)  *)
(*                                                                         *)
(* The C++ type double is modelled as a binary floating-point number with  *)
(* MantBits significand bits, round-to-nearest-even, +-inf and NaN, and an *)
(* unbounded exponent: every arithmetic operation of the source is one     *)
(* rounded operation of the model.  binary64 has 53 significand bits; the  *)
(* model keeps the format and the rounding rule and shortens the           *)
(* significand.  Signed zero is not distinguished (-0 = +0).               *)
(***************************************************************************)
EXTENDS Integers, Sequences, FiniteSets, TLC

\* Significand bits of the modelled double.
MantBits == 5

\* Significand bits carried inside the library functions (cos, sin, the
\* reference foot point) before their result is rounded to MantBits.
WorkBits == MantBits + 8

(***************************************************************************)
(* Integer helpers                                                         *)
(***************************************************************************)
\* Widest integer the evaluation keeps exact (the model's integers are 32-bit).
IntBits == 32 - 2

Abs(n) == IF n < 0 THEN -n ELSE n

Sgn(n) == IF n < 0 THEN -1 ELSE IF n > 0 THEN 1 ELSE 0

Max(a, b) == IF a < b THEN b ELSE a

Min(a, b) == IF a < b THEN a ELSE b

\* The element of a one-element set: The({f(v) : v \in {e}}) is f(e), with e
\* evaluated before f is entered.
The(S) == CHOOSE v \in S : TRUE

Pow2(k) == IF k <= 0 THEN 1 ELSE 2 ^ k

\* Number of binary digits of n >= 0 (0 for n = 0).
BitLen(n) ==
    IF n <= 0 THEN 0
    ELSE 1 + (CHOOSE k \in 0..IntBits : 2 ^ k <= n /\ n \div 2 < 2 ^ k)

\* Largest r with r*r <= v, for 0 <= lo*lo <= v < (hi+1)*(hi+1).
RECURSIVE ISqrtIn(_, _, _)
ISqrtIn(v, lo, hi) ==
    IF lo >= hi THEN lo
    ELSE LET mid == (lo + hi + 1) \div 2
         IN  IF mid * mid <= v THEN ISqrtIn(v, mid, hi) ELSE ISqrtIn(v, lo, mid - 1)

ISqrt(v) == ISqrtIn(v, 0, Pow2((BitLen(v) + 1) \div 2))

(***************************************************************************)
(* double: <<kind, m, e>>.  kind 0: the finite number m * 2^e with m odd   *)
(* (or m = 0, e = 0); kind 1: infinity with the sign of m; kind 2: NaN.    *)
(***************************************************************************)
Zero == <<0, 0, 0>>

PosInf == <<1, 1, 0>>

NegInf == <<1, -1, 0>>

NaN == <<2, 0, 0>>

IsFin(x) == x[1] = 0

IsInf(x) == x[1] = 1

IsNaN(x) == x[1] = 2

IsZero(x) == x[1] = 0 /\ x[2] = 0

SignOf(x) == Sgn(x[2])

InfOf(s) == IF s < 0 THEN NegInf ELSE PosInf

\* m * 2^e with the k trailing zero bits of m moved into the exponent.
NormBy(m, e, k) == <<0, m \div (2 ^ k), e + k>>

\* The finite number m * 2^e in normal form (odd significand).
Norm(m, e) ==
    IF m = 0 THEN Zero
    ELSE NormBy(m, e, CHOOSE k \in 0..IntBits : m % (2 ^ (k + 1)) # 0)

\* m * 2^e rounded to p significand bits, to nearest, ties to even.
RoundTo(m, e, p) ==
    IF m = 0 THEN Zero
    ELSE LET a == Abs(m)
             k == BitLen(a) - p
         IN  IF k <= 0 THEN Norm(m, e)
             ELSE LET q  == a \div Pow2(k)
                      r  == a % Pow2(k)
                      h  == Pow2(k - 1)
                      qq == IF r > h \/ (r = h /\ q % 2 = 1) THEN q + 1 ELSE q
                  IN  Norm(Sgn(m) * qq, e + k)

(***************************************************************************)
(* Rounded arithmetic at precision p                                       *)
(***************************************************************************)
NegF(x) == <<x[1], -x[2], x[3]>>

AbsF(x) == <<x[1], Abs(x[2]), x[3]>>

\* a + b of two finite non-zero numbers, a having the larger exponent.
AddFinOrdered(a, b, p) ==
    LET d == a[3] - b[3]
    IN  IF BitLen(Abs(a[2])) + d <= IntBits
        THEN RoundTo(a[2] * Pow2(d) + b[2], b[3], p)
        ELSE a   \* |b| is below a quarter of the last place of a

\* a + b when an operand is infinite or NaN.
AddSpecial(a, b) ==
    IF IsNaN(a) \/ IsNaN(b) THEN NaN
    ELSE IF IsInf(a) /\ IsInf(b) THEN (IF a[2] = b[2] THEN a ELSE NaN)
    ELSE IF IsInf(a) THEN a
    ELSE b

AddP(a, b, p) ==
    IF a[1] = 0 /\ b[1] = 0
    THEN (IF a[2] = 0 THEN RoundTo(b[2], b[3], p)
          ELSE IF b[2] = 0 THEN RoundTo(a[2], a[3], p)
          ELSE IF a[3] >= b[3] THEN AddFinOrdered(a, b, p)
          ELSE AddFinOrdered(b, a, p))
    ELSE AddSpecial(a, b)

SubP(a, b, p) == AddP(a, NegF(b), p)

\* a * b when an operand is infinite or NaN.
MulSpecial(a, b) ==
    IF IsNaN(a) \/ IsNaN(b) THEN NaN
    ELSE IF IsZero(a) \/ IsZero(b) THEN NaN
    ELSE InfOf(SignOf(a) * SignOf(b))

MulP(a, b, p) ==
    IF a[1] = 0 /\ b[1] = 0 THEN RoundTo(a[2] * b[2], a[3] + b[3], p)
    ELSE MulSpecial(a, b)

\* a / b when an operand is infinite, NaN or zero.
DivSpecial(a, b) ==
    IF IsNaN(a) \/ IsNaN(b) THEN NaN
    ELSE IF IsInf(a) THEN (IF IsInf(b) THEN NaN
                           ELSE InfOf(SignOf(a) * (IF SignOf(b) < 0 THEN -1 ELSE 1)))
    ELSE IF IsInf(b) THEN Zero
    ELSE IF IsZero(b) THEN (IF IsZero(a) THEN NaN ELSE InfOf(SignOf(a)))
    ELSE Zero

\* The quotient num / mb with a sticky bit below it.
DivSticky(num, mb) == 2 * (num \div mb) + (IF num % mb = 0 THEN 0 ELSE 1)

\* a / b, the significand of a shifted left by s bits.
DivShifted(a, b, p, s) ==
    RoundTo(SignOf(a) * SignOf(b) * DivSticky(Abs(a[2]) * Pow2(s), Abs(b[2])),
            a[3] - b[3] - s - 1, p)

\* a / b of two finite non-zero numbers: the quotient with two guard bits and
\* a sticky bit, rounded.
DivFin(a, b, p) ==
    LET s == p + 2 + BitLen(Abs(b[2])) - BitLen(Abs(a[2]))
    IN  IF s > 0 THEN DivShifted(a, b, p, s) ELSE DivShifted(a, b, p, 0)

DivP(a, b, p) ==
    IF a[1] = 0 /\ b[1] = 0 /\ a[2] # 0 /\ b[2] # 0 THEN DivFin(a, b, p)
    ELSE DivSpecial(a, b)

SqrtP(a, p) ==
    IF IsNaN(a) \/ SignOf(a) < 0 THEN NaN
    ELSE IF IsInf(a) THEN PosInf
    ELSE IF IsZero(a) THEN Zero
    ELSE LET s0 == Max(0, 2 * p + 3 - BitLen(a[2]))
             s  == IF (a[3] - s0) % 2 = 0 THEN s0 ELSE s0 + 1
             v  == a[2] * Pow2(s)
             r  == ISqrt(v)
             st == IF r * r = v THEN 0 ELSE 1
         IN  RoundTo(2 * r + st, ((a[3] - s) \div 2) - 1, p)

(***************************************************************************)
(* Exact comparison of doubles (C++ <, ==; every comparison with NaN is    *)
(* false)                                                                  *)
(***************************************************************************)
\* Sign of a - b for finite a, b.
CmpFin(a, b) ==
    IF SignOf(a) # SignOf(b) THEN Sgn(SignOf(a) - SignOf(b))
    ELSE IF IsZero(a) THEN 0
    ELSE LET e  == Min(a[3], b[3])
             da == a[3] - e
             db == b[3] - e
         IN  IF BitLen(Abs(a[2])) + da > IntBits THEN SignOf(a)
             ELSE IF BitLen(Abs(b[2])) + db > IntBits THEN -SignOf(a)
             ELSE Sgn(a[2] * Pow2(da) - b[2] * Pow2(db))

Cmp(a, b) ==
    IF IsInf(a) /\ IsInf(b) THEN Sgn(a[2] - b[2])
    ELSE IF IsInf(a) THEN a[2]
    ELSE IF IsInf(b) THEN -b[2]
    ELSE CmpFin(a, b)

Lt(a, b) == ~IsNaN(a) /\ ~IsNaN(b) /\ Cmp(a, b) < 0

Le(a, b) == ~IsNaN(a) /\ ~IsNaN(b) /\ Cmp(a, b) <= 0

Eq(a, b) == ~IsNaN(a) /\ ~IsNaN(b) /\ Cmp(a, b) = 0

(***************************************************************************)
(* The operations of double                                                *)
(***************************************************************************)
Add(a, b) == AddP(a, b, MantBits)

Sub(a, b) == SubP(a, b, MantBits)

Mul(a, b) == MulP(a, b, MantBits)

Div(a, b) == DivP(a, b, MantBits)

Sqrt(a) == SqrtP(a, MantBits)

\* A decimal literal or integer n * 2^e of the source, as the nearest double.
Lit(n, e) == RoundTo(n, e, MantBits)

\* static_cast<double>(n) of an unsigned integer.
FromInt(n) == RoundTo(n, 0, MantBits)

One == Lit(1, 0)

Two == Lit(2, 0)

Half == Lit(1, -1)

(***************************************************************************)
(* Library functions of double.  std::cos and std::sin are evaluated by    *)
(* their power series with WorkBits significand bits and rounded once; the *)
(* arguments of the program lie within [-pi, pi].                          *)
(***************************************************************************)
\* A finite number carried with WorkBits bits, rounded to a double.
Round(x) == IF IsFin(x) THEN RoundTo(x[2], x[3], MantBits) ELSE x

\* One step of the series of cos, innermost first:
\* 1 - a2/((2k-1)(2k)) * tail.
CosStep(a2, k, tail) ==
    SubP(One,
         MulP(DivP(a2, Norm((2 * k - 1) * (2 * k), 0), WorkBits), tail, WorkBits),
         WorkBits)

\* 1 - a2/(1*2) * (1 - a2/(3*4) * ( ... (1 - a2/(15*16)) ... ))
CosTail(a2) ==
    The({CosStep(a2, 1, t1) : t1 \in
        {CosStep(a2, 2, t2) : t2 \in
        {CosStep(a2, 3, t3) : t3 \in
        {CosStep(a2, 4, t4) : t4 \in
        {CosStep(a2, 5, t5) : t5 \in
        {CosStep(a2, 6, t6) : t6 \in
        {CosStep(a2, 7, t7) : t7 \in
        {CosStep(a2, 8, One)}}}}}}}})

\* One step of the series of sin(a)/a, innermost first:
\* 1 - a2/((2k)(2k+1)) * tail.
SinStep(a2, k, tail) ==
    SubP(One,
         MulP(DivP(a2, Norm((2 * k) * (2 * k + 1), 0), WorkBits), tail, WorkBits),
         WorkBits)

\* 1 - a2/(2*3) * (1 - a2/(4*5) * ( ... (1 - a2/(16*17)) ... ))
SinTail(a2) ==
    The({SinStep(a2, 1, t1) : t1 \in
        {SinStep(a2, 2, t2) : t2 \in
        {SinStep(a2, 3, t3) : t3 \in
        {SinStep(a2, 4, t4) : t4 \in
        {SinStep(a2, 5, t5) : t5 \in
        {SinStep(a2, 6, t6) : t6 \in
        {SinStep(a2, 7, t7) : t7 \in
        {SinStep(a2, 8, One)}}}}}}}})

Cos(a) ==
    IF ~IsFin(a) THEN NaN
    ELSE Round(CosTail(MulP(a, a, WorkBits)))

Sin(a) ==
    IF ~IsFin(a) THEN NaN
    ELSE Round(MulP(a, SinTail(MulP(a, a, WorkBits)), WorkBits))

(***************************************************************************)
(* peri: constants and XYZ arithmetic (peridetic.h, periLocal.h; not among *)
(* the source files, taken from the data model of the specification)       *)
(***************************************************************************)
\* peri::pi(): the double nearest to pi (843314857 / 2^28 = 3.14159265...).
pi == Lit(843314857, -28)

sq(x) == Mul(x, x)

\* operator*(double, XYZ)
Scale(c, v) == <<Mul(c, v[1]), Mul(c, v[2]), Mul(c, v[3])>>

\* operator-(XYZ, XYZ)
VSub(a, b) == <<Sub(a[1], b[1]), Sub(a[2], b[2]), Sub(a[3], b[3])>>

magnitude(v) == Sqrt(Add(Add(sq(v[1]), sq(v[2])), sq(v[3])))

\* v divided by its magnitude mag.
UnitBy(v, mag) == <<Div(v[1], mag), Div(v[2], mag), Div(v[3], mag)>>

unit(v) == UnitBy(v, magnitude(v))

(***************************************************************************)
(* peri::Shape, peri::Ellipsoid, peri::EarthModel and the exact transforms *)
(* (peridetic.h, periDetail.h; not among the source files, taken from the  *)
(* specification: a point p is on the surface iff the sum over k of        *)
(* muSq[k]*p[k]^2 is 1)                                                    *)
(***************************************************************************)
Shape(muSqs) == [theMuSqs |-> muSqs]

EarthModel(shape, lambda) ==
    [theEllip |-> [theShapeOrig |-> shape, theLambda |-> lambda]]

\* Ellipsoid::lambda(): the characteristic radius.
lambda(ellip) == ellip.theLambda

\* Shape::gradientAt: gradient of the implicit function sum muSq[k]*p[k]^2.
gradientAt(shape, p) ==
    LET mu == shape.theMuSqs
    IN  <<Mul(Two, Mul(mu[1], p[1])), Mul(Two, Mul(mu[2], p[2])),
          Mul(Two, Mul(mu[3], p[3]))>>

\* The implicit function sum muSq[k]*p[k]^2, in double.
ShapeFunction(shape, p) ==
    LET mu == shape.theMuSqs
    IN  Add(Add(Mul(mu[1], sq(p[1])), Mul(mu[2], sq(p[2]))), Mul(mu[3], sq(p[3])))

\* ellip::radiusToward: distance from the origin to the surface along the
\* unit direction dir.
radiusToward(dir, shape) == Div(One, Sqrt(ShapeFunction(shape, dir)))

\* pk * pk at WorkBits bits.
sqP(pk) == MulP(pk, pk, WorkBits)

\* The perpendicular foot point p of x has p[k] = x[k] / (1 + s*muSq[k]) with
\* p on the surface; the left side below decreases in s.
FootTerm(s, xk, muk) ==
    MulP(muk,
         sqP(DivP(xk, AddP(One, MulP(s, muk, WorkBits), WorkBits), WorkBits)),
         WorkBits)

FootResidual(s, x, mu) ==
    The({SubP(AddP(AddP(term[1], term[2], WorkBits), term[3], WorkBits),
              One, WorkBits) :
             term \in {<<FootTerm(s, x[1], mu[1]), FootTerm(s, x[2], mu[2]),
                         FootTerm(s, x[3], mu[3])>>}})

\* The middle of the interval iv = <<lo, hi>>.
FootMid(iv) == MulP(Half, AddP(iv[1], iv[2], WorkBits), WorkBits)

\* One halving of iv: the half on which the residual changes sign.
FootHalve(iv, x, mu) ==
    The({IF Lt(Zero, FootResidual(mid, x, mu)) THEN <<mid, iv[2]>> ELSE <<iv[1], mid>> :
             mid \in {FootMid(iv)}})

\* iv after n halvings: n \div 2 of them, then the others.
RECURSIVE FootBisect(_, _, _, _)
FootBisect(iv, n, x, mu) ==
    IF n > 1
    THEN The({FootBisect(half, n - (n \div 2), x, mu) :
                  half \in {FootBisect(iv, n \div 2, x, mu)}})
    ELSE IF n = 1 THEN FootHalve(iv, x, mu)
    ELSE iv

MaxOf3(t) == LET m == IF Lt(t[1], t[2]) THEN t[2] ELSE t[1]
             IN  IF Lt(m, t[3]) THEN t[3] ELSE m

MinOf3(t) == LET m == IF Lt(t[2], t[1]) THEN t[2] ELSE t[1]
             IN  IF Lt(t[3], m) THEN t[3] ELSE m

\* The multiplier s of the perpendicular foot point of x.
FootMultiplier(x, shape) ==
    LET mu   == shape.theMuSqs
        sLo  == NegF(DivP(One, MaxOf3(mu), WorkBits))
        sHi  == DivP(ShapeFunction(shape, x), MinOf3(mu), WorkBits)
    IN  The({FootMid(last) : last \in
            {FootBisect(first, WorkBits + 2, x, mu) : first \in {<<sLo, sHi>>}}})

\* The point of multiplier s on the normal through x, rounded to double.
FootAt(x, mu, s) ==
    LET p(k) == Round(DivP(x[k], AddP(One, MulP(s, mu[k], WorkBits), WorkBits), WorkBits))
    IN  <<p(1), p(2), p(3)>>

\* The exact perpendicular foot point of x on the ellipsoid.
FootPoint(x, shape) ==
    The({FootAt(x, shape.theMuSqs, s) : s \in {FootMultiplier(x, shape)}})

\* lpaForXyz: longitude and parallel name the foot point of x on the surface
\* and are carried as that point; the altitude is the signed distance from it.
LpaAt(x, shape, foot, dist) ==
    [foot |-> foot,
     alt  |-> IF Lt(ShapeFunction(shape, x), One) THEN NegF(dist) ELSE dist]

LpaFrom(x, shape, foot) == LpaAt(x, shape, foot, magnitude(VSub(x, foot)))

lpaForXyz(x, earth) ==
    The({LpaFrom(x, earth.theEllip.theShapeOrig, foot) :
             foot \in {FootPoint(x, earth.theEllip.theShapeOrig)}})

\* xyzForLpa: the point at altitude lpa.alt on the outward unit normal at the
\* surface point that (longitude, parallel) name.
XyzAlong(lpa, up) ==
    IF IsZero(lpa.alt) THEN lpa.foot
    ELSE <<Add(lpa.foot[1], Mul(lpa.alt, up[1])),
           Add(lpa.foot[2], Mul(lpa.alt, up[2])),
           Add(lpa.foot[3], Mul(lpa.alt, up[3]))>>

xyzForLpa(lpa, earth) ==
    XyzAlong(lpa, unit(gradientAt(earth.theEllip.theShapeOrig, lpa.foot)))

(***************************************************************************)
(* SampleSpec of src/tests/demoExcess.cpp                                  *)
(***************************************************************************)
\* static_cast<double>(theNum-1): theNum is a 64-bit unsigned, so 0-1 wraps
\* to 2^64-1, which converts to the double 2^64.
DemoNumMinusOne(theNum) ==
    IF theNum = 0 THEN Lit(1, 64) ELSE FromInt(theNum - 1)

DemoSampleSpec(theNum, theRange) ==
    [impl |-> "demoExcess", theNum |-> theNum, theRange |-> theRange]

DemoSize(spec) == spec.theNum

DemoDeltaNoMinusOne(spec) ==
    LET rangeMag == Sub(spec.theRange[2], spec.theRange[1])
    IN  Mul(Div(One, FromInt(spec.theNum)), rangeMag)

DemoDelta(spec) ==
    LET rangeMag == Sub(spec.theRange[2], spec.theRange[1])
    IN  Mul(Div(One, DemoNumMinusOne(spec.theNum)), rangeMag)

\* What the evaluation of delta() runs into: theNum-1 is taken and divided by
\* without any test of theNum.
DemoDeltaHazard(spec) ==
    IF spec.theNum = 0 THEN "wrap"
    ELSE IF IsZero(DemoNumMinusOne(spec.theNum)) THEN "divByZero"
    ELSE "none"

DemoBegin(spec) == spec.theRange[1]

DemoLast(spec) == spec.theRange[2]

DemoValueAtIndex(spec, ndx) ==
    Add(DemoBegin(spec), Mul(FromInt(ndx), DemoDelta(spec)))

(***************************************************************************)
(* SampleSpec of src/tests/periSim.h                                       *)
(***************************************************************************)
SimDeltaForUnguarded(numSamps, range) ==
    LET rangeMag == Sub(range[2], range[1])
    IN  IF 0 < numSamps
        THEN Mul(Div(One, FromInt(numSamps - 1)), rangeMag)
        ELSE Zero

SimDeltaFor(numSamps, range) ==
    LET rangeMag == Sub(range[2], range[1])
    IN  IF 1 < numSamps
        THEN Mul(Div(One, FromInt(numSamps - 1)), rangeMag)
        ELSE Zero

\* What deltaFor runs into: numSamps-1 is taken and divided by only under
\* the test (1u < numSamps).
SimDeltaForHazard(numSamps) ==
    IF 1 < numSamps
    THEN (IF IsZero(FromInt(numSamps - 1)) THEN "divByZero" ELSE "none")
    ELSE "none"

SimSampleSpec(numSamps, range) ==
    [impl |-> "periSim", theNumSamps |-> numSamps, theRange |-> range,
     theDelta |-> SimDeltaFor(numSamps, range)]

SimSize(spec) == spec.theNumSamps

SimDelta(spec) == spec.theDelta

SimFirst(spec) == spec.theRange[1]

SimLast(spec) == spec.theRange[2]

SimValueAtIndex(spec, ndx) ==
    Add(SimFirst(spec), Mul(FromInt(ndx), SimDelta(spec)))

(***************************************************************************)
(* The two SampleSpec types behind one interface: impl names the file.     *)
(***************************************************************************)
Impls == {"demoExcess", "periSim"}

SampleSpec(impl, num, range) ==
    IF impl = "demoExcess" THEN DemoSampleSpec(num, range)
    ELSE SimSampleSpec(num, range)

Size(spec) == IF spec.impl = "demoExcess" THEN DemoSize(spec) ELSE SimSize(spec)

Delta(spec) == IF spec.impl = "demoExcess" THEN DemoDelta(spec) ELSE SimDelta(spec)

DeltaHazard(spec) ==
    IF spec.impl = "demoExcess" THEN DemoDeltaHazard(spec)
    ELSE SimDeltaForHazard(spec.theNumSamps)

ValueAtIndex(spec, ndx) ==
    IF spec.impl = "demoExcess" THEN DemoValueAtIndex(spec, ndx)
    ELSE SimValueAtIndex(spec, ndx)

\* samplesFor (demoExcess.cpp) and samplesAccordingTo (periSim.h): what the
\* loop pushes from index ndx on.
RECURSIVE SamplesLoop(_, _)
SamplesLoop(spec, ndx) ==
    IF ndx < Size(spec)
    THEN <<ValueAtIndex(spec, ndx)>> \o SamplesLoop(spec, ndx + 1)
    ELSE <<>>

samplesFor(spec) == SamplesLoop(spec, 0)

(***************************************************************************)
(* meridianPlaneSamples (demoExcess.cpp and periSim.h: the same text over  *)
(* the SampleSpec of each file)                                            *)
(***************************************************************************)
xyzDirFor(parVal, lonVal) ==
    <<Mul(Cos(parVal), Cos(lonVal)), Mul(Cos(parVal), Sin(lonVal)), Sin(parVal)>>

\* The inner loop, for (radVal : radVals): what it pushes.
RadLoop(radVals, xyzDir) ==
    [j \in 1..Len(radVals) |-> Scale(radVals[j], xyzDir)]

\* The outer loop, for (parVal : parVals): what it pushes from position i on.
RECURSIVE ParLoop(_, _, _, _)
ParLoop(parVals, radVals, lonVal, i) ==
    IF i > Len(parVals) THEN <<>>
    ELSE RadLoop(radVals, xyzDirFor(parVals[i], lonVal))
             \o ParLoop(parVals, radVals, lonVal, i + 1)

\* The loops exchanged: radius outside, parallel inside.
RECURSIVE RadOuterLoop(_, _, _, _)
RadOuterLoop(parVals, radVals, lonVal, j) ==
    IF j > Len(radVals) THEN <<>>
    ELSE [i \in 1..Len(parVals) |->
             Scale(radVals[j], xyzDirFor(parVals[i], lonVal))]
             \o RadOuterLoop(parVals, radVals, lonVal, j + 1)

meridianPlaneSamplesRadOuter(radSpec, parSpec, lonVal) ==
    RadOuterLoop(samplesFor(parSpec), samplesFor(radSpec), lonVal, 1)

meridianPlaneSamples(radSpec, parSpec, lonVal) ==
    ParLoop(samplesFor(parSpec), samplesFor(radSpec), lonVal, 1)

\* The default argument lonVal = .25*pi().
DefaultLon == Mul(Lit(1, -2), pi)

(***************************************************************************)
(* The foot-point solver of demoExcess.cpp                                 *)
(***************************************************************************)
\* The body of the loop of zetaCoefficients for axis kk, co = <<coA, coB, coC>>:
\* the update of the coefficients, given s1k and nPerMuSq.
ZetaUpdate(co, s1k, nPerMuSq) ==
    <<Add(co[1], Mul(Mul(nPerMuSq, s1k), s1k)),
      Add(co[2], Mul(nPerMuSq, s1k)),
      Add(co[3], nPerMuSq)>>

\* n1k and nPerMuSq, given fgkInv and s1k.
ZetaStepScaled(co, kk, xVec, muSqs, fgkInv, s1k) ==
    The({ZetaUpdate(co, s1k, nPerMuSq) :
             nPerMuSq \in {Div(sq(Mul(Mul(s1k, fgkInv), xVec[kk])), muSqs[kk])}})

\* s1k, given fgkInv.
ZetaStepWith(co, kk, xVec, eta0, muSqs, fgkInv) ==
    The({ZetaStepScaled(co, kk, xVec, muSqs, fgkInv, s1k) :
             s1k \in {Div(One, Add(fgkInv, eta0))}})

ZetaStep(co, kk, xVec, eta0, grMag, muSqs) ==
    The({ZetaStepWith(co, kk, xVec, eta0, muSqs, fgkInv) :
             fgkInv \in {Mul(Mul(Half, grMag), muSqs[kk])}})

\* The adjustment after the loop: coA *= 3, coC -= 1.
ZetaAdjust(co) == <<Mul(co[1], Lit(3, 0)), co[2], Sub(co[3], One)>>

zetaCoefficients(xVec, eta0, grMag, shape) ==
    The({ZetaAdjust(co3) : co3 \in
        {ZetaStep(co2, 3, xVec, eta0, grMag, shape.theMuSqs) : co2 \in
        {ZetaStep(co1, 2, xVec, eta0, grMag, shape.theMuSqs) : co1 \in
        {ZetaStep(<<Zero, Zero, Zero>>, 1, xVec, eta0, grMag, shape.theMuSqs)}}}})

\* pVecViaExcess, local by local; each operator below computes the locals
\* named in its comment from the ones it is handed.  The record returned
\* holds the locals; pVec is what the function returns and radArg is the
\* vector it hands to radiusToward.
\* pVec.
PveResult(xVec, muSqs, rho, rVec, grMag, eta0, coABCs, zeta, correction) ==
    [radArg |-> xVec, rho |-> rho, rVec |-> rVec, grMag |-> grMag,
     eta0 |-> eta0, coABCs |-> coABCs, zeta |-> zeta, correction |-> correction,
     pVec |-> <<Div(xVec[1], Add(One, Div(correction, muSqs[1]))),
                Div(xVec[2], Add(One, Div(correction, muSqs[2]))),
                Div(xVec[3], Add(One, Div(correction, muSqs[3])))>>]

\* correction.
PveCorrection(xVec, muSqs, rho, rVec, grMag, eta0, coABCs, zeta) ==
    PveResult(xVec, muSqs, rho, rVec, grMag, eta0, coABCs, zeta,
              Div(Mul(Two, Add(zeta, eta0)), grMag))

\* xArg, fracCoB, zetaApx2 = zeta.
PveZeta(xVec, muSqs, rho, rVec, grMag, eta0, coABCs) ==
    LET coA      == coABCs[1]
        coB      == coABCs[2]
        coC      == coABCs[3]
        xArg     == Div(Mul(coA, coC), sq(coB))
        fracCoB  == Div(coC, coB)
        zetaApx2 == Mul(fracCoB, Add(Half, Mul(Lit(1, -3), xArg)))
    IN  PveCorrection(xVec, muSqs, rho, rVec, grMag, eta0, coABCs, zetaApx2)

\* coABCs.
PveCoefficients(xVec, shape, rho, rVec, grMag, eta0) ==
    PveZeta(xVec, shape.theMuSqs, rho, rVec, grMag, eta0,
            zetaCoefficients(xVec, eta0, grMag, shape))

\* grVec, grMag, eta0.
PveAtRadialPoint(xVec, shape, rho, rVec) ==
    PveCoefficients(xVec, shape, rho, rVec,
                    magnitude(gradientAt(shape, rVec)), magnitude(VSub(xVec, rVec)))

\* rVec.
PveRadial(xVec, shape, rho) ==
    PveAtRadialPoint(xVec, shape, rho, Scale(rho, unit(xVec)))

\* rho: radiusToward is handed xVec.
pVecViaExcess(xVec, earth) ==
    PveRadial(xVec, earth.theEllip.theShapeOrig,
              radiusToward(xVec, earth.theEllip.theShapeOrig))

(***************************************************************************)
(* The validation harness of demoExcess.cpp                                *)
(***************************************************************************)
\* The body of the loop of test1 for one grid point, local by local as above;
\* line is what it writes to ostrm under showSamples.
\* extra, gRatio, rEps, delEta, dEtaPerR and the line written.
Test1Report(xLpa, xDir, pVec, rMag, rVec, xrMag, xpMag, gpMag, grMag) ==
    [radArg |-> xDir, rVec |-> rVec, pVec |-> pVec, extra |-> Sub(xrMag, xpMag),
     line |-> [Par |-> xLpa.foot, Alt |-> xLpa.alt, extra |-> Sub(xrMag, xpMag),
               rEps |-> Sub(Div(grMag, gpMag), One),
               delEta |-> Sub(xrMag, xpMag),
               dEtaPerR |-> Div(Sub(xrMag, xpMag), rMag)]]

\* xrVec, xpVec, xrMag, xpMag, gpVec, gpMag, grVec, grMag.
Test1Magnitudes(xVec, shape, xLpa, xDir, pVec, rMag, rVec) ==
    Test1Report(xLpa, xDir, pVec, rMag, rVec,
                magnitude(VSub(xVec, rVec)), magnitude(VSub(xVec, pVec)),
                magnitude(gradientAt(shape, pVec)), magnitude(gradientAt(shape, rVec)))

\* rVec.
Test1RadialPoint(xVec, shape, xLpa, xDir, pVec, rMag) ==
    Test1Magnitudes(xVec, shape, xLpa, xDir, pVec, rMag, Scale(rMag, xDir))

\* pLpa, pVec, rMag: radiusToward is handed xDir.
Test1FootPoints(xVec, earth, xLpa, xDir) ==
    Test1RadialPoint(xVec, earth.theEllip.theShapeOrig, xLpa, xDir,
                     xyzForLpa([foot |-> xLpa.foot, alt |-> Zero], earth),
                     radiusToward(xDir, earth.theEllip.theShapeOrig))

\* xLpa, xDir.
Test1Body(xyz, earth) ==
    The({Test1FootPoints(xyz, earth, xLpa, xDir) :
             xLpa \in {lpaForXyz(xyz, earth)}, xDir \in {unit(xyz)}})

\* checkXYZ: the record it writes for one point (it returns 0).
\* pMagDif.
CheckRecord(xLpaExp, pVecDif) ==
    [xLpaExp |-> xLpaExp, pVecDif |-> pVecDif, pMagDif |-> magnitude(pVecDif)]

\* pLpaExp, pVecExp, pVecDif.
CheckAgainst(pVecGot, xLpaExp, earth) ==
    CheckRecord(xLpaExp,
                VSub(pVecGot, xyzForLpa([foot |-> xLpaExp.foot, alt |-> Zero], earth)))

\* The difference taken against the input point instead of the exact foot point.
checkXYZAgainstInput(xVecExp, earth) ==
    CheckRecord(lpaForXyz(xVecExp, earth),
                VSub(pVecViaExcess(xVecExp, earth).pVec, xVecExp))

\* pVecGot, xLpaExp.
checkXYZ(xVecExp, earth) ==
    The({CheckAgainst(pVecGot, xLpaExp, earth) :
             pVecGot \in {pVecViaExcess(xVecExp, earth).pVec},
             xLpaExp \in {lpaForXyz(xVecExp, earth)}})

\* std::sort of a vector of doubles (none of them NaN).
RECURSIVE InsertSorted(_, _)
InsertSorted(sorted, v) ==
    IF sorted = <<>> THEN <<v>>
    ELSE IF Lt(v, Head(sorted)) THEN <<v>> \o sorted
    ELSE <<Head(sorted)>> \o InsertSorted(Tail(sorted), v)

RECURSIVE SortLoop(_, _)
SortLoop(rest, sorted) ==
    IF rest = <<>> THEN sorted
    ELSE SortLoop(Tail(rest), InsertSorted(sorted, Head(rest)))

Unsorted(seq) == seq

\* The order reversed: largest first.
RECURSIVE Reversed(_)
Reversed(seq) == IF seq = <<>> THEN <<>> ELSE Append(Reversed(Tail(seq)), Head(seq))

SortDescending(seq) == Reversed(SortLoop(seq, <<>>))

Sort(seq) == SortLoop(seq, <<>>)

(***************************************************************************)
(* State                                                                   *)
(***************************************************************************)
VARIABLES
    pc,          \* position of the running program
    sspec,       \* sampling run: <<impl, num, <<lo, hi>>>> of its SampleSpec
    ndx,         \* sampling run: loop index of samplesFor / samplesAccordingTo
    samps,       \* sampling run: the vector samps being filled
    probe,       \* sampling run: <<index, valueAtIndex(index)>> of the last direct call
    earth,       \* the EarthModel (never written after construction)
    radSpec,     \* the SampleSpec of the radii
    parSpec,     \* the SampleSpec of the parallel angles
    lonVal,      \* the longitude of the meridian plane
    xyzs,        \* the grid returned by meridianPlaneSamples
    nxt,         \* position of the range-for loop over xyzs (1-based)
    extras,      \* test1: the vector extras
    ostrm,       \* test1: what has been written to ostrm, in order
    ofsDifPVec,  \* test2: the records written to pvecDiff.dat, in order
    errCount,    \* errCount of the running test function
    ret,         \* value returned by the test function that finished last
    mainErr,     \* errCount of main
    xVec,        \* solver run: the point handed to the solver
    sol,         \* solver run: locals of pVecViaExcess(xVec)
    t1,          \* solver run: locals of the body of test1 for xVec
    pending,     \* reordered run: grid positions not yet evaluated
    results,     \* reordered run: per-point results, in order of completion
    bulk,        \* bulk run: <<lonBulk, parBulk, altBulk>> handed to bulkSamplesLpa
    lonSamps,    \* bulk run: the vector lonSamps of bulkSamplesLpa
    parSamps,    \* bulk run: the vector parSamps of bulkSamplesLpa
    altSamps,    \* bulk run: the vector altSamps of bulkSamplesLpa
    lpas         \* bulk run: the vector comboSamplesLpa returns

sampleVars == <<sspec, ndx, samps, probe>>

gridVars == <<earth, radSpec, parSpec, lonVal, xyzs>>

harnessVars == <<nxt, extras, ostrm, ofsDifPVec, errCount, ret, mainErr>>

solverVars == <<xVec, sol, t1>>

parVars == <<pending, results>>

bulkVars == <<bulk, lonSamps, parSamps, altSamps, lpas>>

vars == <<pc, sampleVars, gridVars, harnessVars, solverVars, parVars, bulkVars>>

\* The parts of the state a run does not use.
SampleIdle == sspec = <<>> /\ ndx = 0 /\ samps = <<>> /\ probe = <<>>

GridIdle == earth = <<>> /\ radSpec = <<>> /\ parSpec = <<>> /\ lonVal = Zero /\ xyzs = <<>>

HarnessIdle ==
    /\ nxt = 0 /\ extras = <<>> /\ ostrm = <<>> /\ ofsDifPVec = <<>>
    /\ errCount = 0 /\ ret = 0 /\ mainErr = 0

SolverIdle == xVec = <<>> /\ sol = <<>> /\ t1 = <<>>

ParIdle == pending = {} /\ results = <<>>

BulkIdle ==
    bulk = <<>> /\ lonSamps = <<>> /\ parSamps = <<>> /\ altSamps = <<>> /\ lpas = <<>>

(***************************************************************************)
(* Sampling runs: one SampleSpec, samplesFor step by step, and direct      *)
(* calls of valueAtIndex (which checks no index)                           *)
(***************************************************************************)
\* Largest sample count of a sampling run.
MaxNum == 6

\* Largest index handed to valueAtIndex directly.
MaxNdx == 3

SampleRanges ==
    { <<Lit(0, 0), Lit(1, 0)>>, <<Lit(-1, 0), Lit(1, 0)>>, <<Lit(0, 0), Lit(3, 0)>>,
      <<Lit(1, -1), Lit(2, 0)>>, <<Lit(16, 0), Lit(18, 0)>>, <<Lit(1, 0), Lit(1, 0)>>,
      <<Lit(3, 0), Lit(1, 0)>> }

TheSpec == SampleSpec(sspec[1], sspec[2], sspec[3])

InitSample ==
    /\ pc = "samplesFor"
    /\ sspec \in Impls \X (0..MaxNum) \X SampleRanges
    /\ ndx = 0
    /\ samps = <<>>
    /\ probe = <<>>
    /\ GridIdle /\ HarnessIdle /\ SolverIdle /\ ParIdle /\ BulkIdle

\* One pass of the for loop of samplesFor / samplesAccordingTo.
SamplesForStep ==
    /\ pc = "samplesFor"
    /\ ndx < Size(TheSpec)
    /\ samps' = Append(samps, ValueAtIndex(TheSpec, ndx))
    /\ ndx' = ndx + 1
    /\ UNCHANGED <<bulkVars, pc, sspec, probe, gridVars, harnessVars, solverVars, parVars>>

\* The loop condition fails: return samps.
SamplesForReturn ==
    /\ pc = "samplesFor"
    /\ ~(ndx < Size(TheSpec))
    /\ pc' = "returned"
    /\ UNCHANGED <<bulkVars, sampleVars, gridVars, harnessVars, solverVars, parVars>>

\* spec.valueAtIndex(i) for any i: the index is not checked.
ValueAtIndexCall ==
    /\ pc = "returned"
    /\ \E i \in 0..MaxNdx : probe' = <<i, ValueAtIndex(TheSpec, i)>>
    /\ UNCHANGED <<bulkVars, pc, sspec, ndx, samps, gridVars, harnessVars, solverVars, parVars>>

NextSample == SamplesForStep \/ SamplesForReturn \/ ValueAtIndexCall

SpecSample == InitSample /\ [][NextSample]_vars

(***************************************************************************)
(* Grid runs: one call of meridianPlaneSamples of either file              *)
(***************************************************************************)
\* Largest sample count of a grid SampleSpec.
MaxGridNum == 3

RadRanges == { <<Lit(1, 0), Lit(2, 0)>>, <<Lit(3, -1), Lit(3, 0)>> }

ParRanges == { <<Zero, Mul(Half, pi)>>, <<Mul(Lit(-1, -1), pi), Mul(Half, pi)>> }

LonVals == { DefaultLon, Zero, Mul(Lit(-1, -1), pi) }

InitGrid ==
    /\ pc = "meridianPlaneSamples"
    /\ \E impl \in Impls :
         /\ radSpec \in {SampleSpec(impl, n, r) : n \in 0..MaxGridNum, r \in RadRanges}
         /\ parSpec \in {SampleSpec(impl, n, r) : n \in 0..MaxGridNum, r \in ParRanges}
    /\ lonVal \in LonVals
    /\ xyzs = <<>>
    /\ earth = <<>>
    /\ SampleIdle /\ HarnessIdle /\ SolverIdle /\ ParIdle /\ BulkIdle

MeridianPlaneSamplesCall ==
    /\ pc = "meridianPlaneSamples"
    /\ xyzs' = meridianPlaneSamples(radSpec, parSpec, lonVal)
    /\ pc' = "gridReturned"
    /\ UNCHANGED <<bulkVars, earth, radSpec, parSpec, lonVal, sampleVars, harnessVars,
                   solverVars, parVars>>

NextGrid == MeridianPlaneSamplesCall

SpecGrid == InitGrid /\ [][NextGrid]_vars

(***************************************************************************)
(* The program: main calls test1, then test2                               *)
(***************************************************************************)
\* Earth models of the runs: the unit sphere, the sphere of radius 2, and the
\* oblate ellipsoid with semi-axes 2, 2, sqrt(2); each with its
\* characteristic radius.
UnitSphere == EarthModel(Shape(<<One, One, One>>), One)

Sphere2 == EarthModel(Shape(<<Lit(1, -2), Lit(1, -2), Lit(1, -2)>>), Two)

Oblate == EarthModel(Shape(<<Lit(1, -2), Lit(1, -2), Lit(1, -1)>>), Lit(27, -4))

Earths == {UnitSphere, Sphere2, Oblate}

\* main's altitude band about the characteristic radius.
altLo == Lit(-1, -2)

altHi == Lit(1, -1)

\* Sample counts main hands over: theNum must satisfy 1 < theNum; 0 gives the
\* empty grid.
GridNums == (0..MaxGridNum) \ {1}

InitMain ==
    /\ pc = "main"
    /\ earth \in Earths
    /\ \E numRad \in GridNums :
         radSpec = DemoSampleSpec(numRad,
                       <<Add(lambda(earth.theEllip), altLo),
                         Add(lambda(earth.theEllip), altHi)>>)
    /\ \E numPar \in GridNums :
         parSpec = DemoSampleSpec(numPar, <<Zero, Mul(Half, pi)>>)
    /\ lonVal = DefaultLon
    /\ xyzs = <<>>
    /\ nxt = 0 /\ extras = <<>> /\ ostrm = <<>> /\ ofsDifPVec = <<>>
    /\ errCount = 0 /\ ret = 0 /\ mainErr = 0
    /\ SampleIdle /\ SolverIdle /\ ParIdle /\ BulkIdle

\* main calls test1(ofs, radSpec, parSpec, earth, true): up to the loop.
Test1Begin ==
    /\ pc = "main"
    /\ errCount' = 0
    /\ xyzs' = meridianPlaneSamples(radSpec, parSpec, lonVal)
    /\ extras' = <<>>
    /\ nxt' = 1
    /\ pc' = "test1_loop"
    /\ UNCHANGED <<bulkVars, earth, radSpec, parSpec, lonVal, ostrm, ofsDifPVec, ret, mainErr,
                   sampleVars, solverVars, parVars>>

\* One pass of the loop of test1 (showSamples is true).
Test1Point ==
    /\ pc = "test1_loop"
    /\ nxt <= Len(xyzs)
    /\ LET body == Test1Body(xyzs[nxt], earth)
       IN  /\ extras' = Append(extras, body.extra)
           /\ ostrm' = Append(ostrm, <<"sample", body.line>>)
    /\ nxt' = nxt + 1
    /\ UNCHANGED <<bulkVars, pc, gridVars, ofsDifPVec, errCount, ret, mainErr,
                   sampleVars, solverVars, parVars>>

\* After the loop: sort and report, ++errCount, return to main.
Test1End ==
    /\ pc = "test1_loop"
    /\ nxt > Len(xyzs)
    /\ IF extras # <<>>
       THEN LET sorted == Sort(extras)
            IN  /\ extras' = sorted
                /\ ostrm' = ostrm \o << <<"minExcess", sorted[1]>>,
                                        <<"maxExcess", sorted[Len(sorted)]>> >>
       ELSE UNCHANGED <<extras, ostrm>>
    /\ errCount' = errCount + 1
    /\ ret' = errCount'
    /\ mainErr' = mainErr + errCount'
    /\ pc' = "main_after_test1"
    /\ UNCHANGED <<bulkVars, gridVars, nxt, ofsDifPVec, sampleVars, solverVars, parVars>>

\* main calls test2(radSpec, parSpec, earth): up to the loop.
Test2Begin ==
    /\ pc = "main_after_test1"
    /\ errCount' = 0
    /\ xyzs' = meridianPlaneSamples(radSpec, parSpec, lonVal)
    /\ ofsDifPVec' = <<>>
    /\ nxt' = 1
    /\ pc' = "test2_loop"
    /\ UNCHANGED <<bulkVars, earth, radSpec, parSpec, lonVal, extras, ostrm, ret, mainErr,
                   sampleVars, solverVars, parVars>>

\* One pass of the loop of test2: errCount += checkXYZ(xyz, earth, ofsDifPVec).
Test2Point ==
    /\ pc = "test2_loop"
    /\ nxt <= Len(xyzs)
    /\ ofsDifPVec' = Append(ofsDifPVec, checkXYZ(xyzs[nxt], earth))
    /\ errCount' = errCount + 0
    /\ nxt' = nxt + 1
    /\ UNCHANGED <<bulkVars, pc, gridVars, extras, ostrm, ret, mainErr,
                   sampleVars, solverVars, parVars>>

\* test2 returns errCount; main adds it and returns.
Test2End ==
    /\ pc = "test2_loop"
    /\ nxt > Len(xyzs)
    /\ ret' = errCount
    /\ mainErr' = mainErr + errCount
    /\ pc' = "done"
    /\ UNCHANGED <<bulkVars, gridVars, nxt, extras, ostrm, ofsDifPVec, errCount,
                   sampleVars, solverVars, parVars>>

Init == InitMain

Next == Test1Begin \/ Test1Point \/ Test1End \/ Test2Begin \/ Test2Point \/ Test2End

Spec == Init /\ [][Next]_vars

(***************************************************************************)
(* Solver runs: pVecViaExcess and the body of test1 for one point          *)
(***************************************************************************)
SolverPoints ==
    { <<One, Zero, Zero>>, <<Zero, Zero, One>>, <<Two, Zero, Zero>>,
      <<Zero, Zero, Two>>, <<Lit(3, 0), Zero, Zero>>, <<Zero, Zero, Lit(3, 0)>>,
      <<One, One, One>>, <<One, Zero, Two>>, <<Lit(3, 0), Lit(3, 0), Zero>>,
      <<Two, Zero, One>>, <<Zero, Lit(3, -1), Zero>>, <<Lit(3, -1), Zero, Lit(3, -1)>> }

\* The reference transform is defined at x (x is not on the focal set).
HasFootPoint(x, e) ==
    \A k \in 1..3 : IsFin(FootPoint(x, e.theEllip.theShapeOrig)[k])

InitSolver ==
    /\ pc = "solver"
    /\ earth \in Earths
    /\ xVec \in {x \in SolverPoints : HasFootPoint(x, earth)}
    /\ sol = <<>>
    /\ t1 = <<>>
    /\ radSpec = <<>> /\ parSpec = <<>> /\ lonVal = Zero /\ xyzs = <<>>
    /\ SampleIdle /\ HarnessIdle /\ ParIdle /\ BulkIdle

PVecViaExcessCall ==
    /\ pc = "solver"
    /\ sol = <<>>
    /\ sol' = pVecViaExcess(xVec, earth)
    /\ UNCHANGED <<bulkVars, pc, xVec, t1, sampleVars, gridVars, harnessVars, parVars>>

Test1BodyCall ==
    /\ pc = "solver"
    /\ t1 = <<>>
    /\ t1' = Test1Body(xVec, earth)
    /\ UNCHANGED <<bulkVars, pc, xVec, sol, sampleVars, gridVars, harnessVars, parVars>>

NextSolver == PVecViaExcessCall \/ Test1BodyCall

SpecSolver == InitSolver /\ [][NextSolver]_vars

(***************************************************************************)
(* Reordered runs: the per-point work of test1 and checkXYZ done in any    *)
(* order (as by workers), then the sort and report of test1                *)
(***************************************************************************)
\* Largest number of grid points of a reordered run (one radius, so one point
\* per parallel angle).
MaxParNum == 4

InitPar ==
    /\ pc = "evaluating"
    /\ earth \in {Sphere2, Oblate}
    /\ radSpec = SimSampleSpec(1, <<Add(lambda(earth.theEllip), altHi),
                                    Add(lambda(earth.theEllip), altHi)>>)
    /\ \E numPar \in 3..MaxParNum :
         parSpec = SimSampleSpec(numPar, <<Zero, Mul(Half, pi)>>)
    /\ lonVal = DefaultLon
    /\ xyzs = meridianPlaneSamples(radSpec, parSpec, lonVal)
    /\ pending = 1..Len(xyzs)
    /\ results = <<>>
    /\ nxt = 0 /\ extras = <<>> /\ ostrm = <<>> /\ ofsDifPVec = <<>>
    /\ errCount = 0 /\ ret = 0 /\ mainErr = 0
    /\ SampleIdle /\ SolverIdle /\ BulkIdle

\* Any point not yet evaluated is evaluated next.
EvalAny ==
    /\ pc = "evaluating"
    /\ \E n \in pending :
         /\ results' = Append(results,
                          [n |-> n,
                           extra |-> Test1Body(xyzs[n], earth).extra,
                           pMagDif |-> checkXYZ(xyzs[n], earth).pMagDif])
         /\ pending' = pending \ {n}
    /\ UNCHANGED <<bulkVars, pc, sampleVars, gridVars, harnessVars, solverVars>>

\* All points evaluated: collect, sort, report.
ParReduce ==
    /\ pc = "evaluating"
    /\ pending = {}
    /\ LET sorted == Sort([k \in 1..Len(results) |-> results[k].extra])
       IN  /\ extras' = sorted
           /\ ostrm' = IF sorted = <<>> THEN ostrm
                       ELSE ostrm \o << <<"minExcess", sorted[1]>>,
                                        <<"maxExcess", sorted[Len(sorted)]>> >>
    /\ pc' = "reduced"
    /\ UNCHANGED <<bulkVars, sampleVars, gridVars, nxt, ofsDifPVec, errCount, ret, mainErr,
                   solverVars, parVars>>

NextPar == EvalAny \/ ParReduce

SpecPar == InitPar /\ [][NextPar]_vars

(***************************************************************************)
(* Distances between doubles, taken exactly                                *)
(***************************************************************************)
Dist(a, b) == AbsF(SubP(a, b, IntBits))

MaxAbs(a, b) == IF Lt(AbsF(a), AbsF(b)) THEN AbsF(b) ELSE AbsF(a)

\* |a - b| <= 2^(k - MantBits) * scale: a and b agree up to the rounding of a
\* few operations on numbers of magnitude scale.
Within(a, b, k, scale) ==
    Le(Dist(a, b), MulP(Norm(1, k - MantBits), AbsF(scale), IntBits))

(***************************************************************************)
(* Claims about SampleSpec, checked under SpecSample                       *)
(***************************************************************************)
SLo == sspec[3][1]

SHi == sspec[3][2]

SNum == sspec[2]

\* C1 as stated: for count >= 2, in both implementations, the value at index
\* 0 is lo, the value at index count-1 is hi, and for lo < hi the values are
\* strictly increasing.
C1_Original ==
    (pc = "returned" /\ SNum >= 2) =>
        /\ Len(samps) = SNum
        /\ samps[1] = SLo
        /\ samps[SNum] = SHi
        /\ Lt(SLo, SHi) => \A i \in 1..(SNum - 1) : Lt(samps[i], samps[i + 1])

\* C1 as amended: for count >= 2, in both implementations, the value at index
\* 0 is lo exactly, the value at index count-1 is hi up to rounding
\* (|v - hi| <= 2^(4-p) * max(|lo|,|hi|) for p significand bits), and for
\* lo < hi the values never decrease.
C1_EndpointsUpToRounding ==
    (pc = "returned" /\ SNum >= 2) =>
        /\ Len(samps) = SNum
        /\ samps[1] = SLo
        /\ Within(samps[SNum], SHi, 4, MaxAbs(SLo, SHi))
        /\ Lt(SLo, SHi) => \A i \in 1..(SNum - 1) : Le(samps[i], samps[i + 1])

\* A finished run over lo < hi whose last value is not hi.
C1_Witness ==
    /\ pc = "returned"
    /\ SNum >= 2
    /\ Len(samps) = SNum
    /\ Lt(SLo, SHi)
    /\ samps[SNum] # SHi

\* C2 as stated: for count < 2, in both implementations, delta() is exactly 0,
\* valueAtIndex(i) is lo for every i, and neither a division by zero nor a
\* wrap-around of count-1 occurs.
C2_Original ==
    SNum < 2 =>
        /\ Delta(TheSpec) = Zero
        /\ DeltaHazard(TheSpec) = "none"
        /\ \A i \in 1..Len(samps) : samps[i] = SLo
        /\ probe # <<>> => probe[2] = SLo

\* C2 as amended: for count < 2 the SampleSpec of periSim.h has delta exactly
\* 0 and valueAtIndex(i) = lo for every i, with count-1 never evaluated; the
\* SampleSpec of demoExcess.cpp divides by zero for count = 1 (delta is +-inf
\* or NaN and no valueAtIndex(i) is lo) and wraps count-1 for count = 0
\* (delta is (hi-lo) * 2^-64).
C2_DegenerateSpec ==
    SNum < 2 =>
        IF sspec[1] = "periSim"
        THEN /\ Delta(TheSpec) = Zero
             /\ DeltaHazard(TheSpec) = "none"
             /\ \A i \in 1..Len(samps) : samps[i] = SLo
             /\ probe # <<>> => probe[2] = SLo
        ELSE IF SNum = 1
        THEN /\ DeltaHazard(TheSpec) = "divByZero"
             /\ ~IsFin(Delta(TheSpec))
             /\ \A i \in 1..Len(samps) : IsNaN(samps[i])
             /\ probe # <<>> => ~IsFin(probe[2])
        ELSE /\ DeltaHazard(TheSpec) = "wrap"
             /\ Delta(TheSpec) = Mul(Lit(1, -64), Sub(SHi, SLo))
             /\ samps = <<>>

\* periSim.h, one sample over lo # hi, valueAtIndex called past the size.
C2_Witness ==
    /\ pc = "returned"
    /\ sspec[1] = "periSim"
    /\ SNum = 1
    /\ SLo # SHi
    /\ Len(samps) = 1
    /\ probe # <<>>
    /\ probe[1] > 0

(***************************************************************************)
(* Claim about meridianPlaneSamples, checked under SpecGrid                *)
(***************************************************************************)
\* The point the claim puts at parallel index i, radial index j.
GridPointAt(i, j) ==
    Scale(ValueAtIndex(radSpec, j), xyzDirFor(ValueAtIndex(parSpec, i), lonVal))

\* C3: meridianPlaneSamples returns size(rad) * size(par) points, the parallel
\* angle in the outer loop and the radius in the inner one, the point of
\* parallel index i and radial index j being
\* r_j * (cos(lon) cos(par_i), sin(lon) cos(par_i), sin(par_i)).
C3_GridOrder ==
    pc = "gridReturned" =>
        /\ Len(xyzs) = Size(radSpec) * Size(parSpec)
        /\ \A i \in 0..(Size(parSpec) - 1) : \A j \in 0..(Size(radSpec) - 1) :
             xyzs[i * Size(radSpec) + j + 1] = GridPointAt(i, j)

\* A returned grid of at least 2 by 3 whose second point differs from its
\* first in the radius only.
C3_Witness ==
    /\ pc = "gridReturned"
    /\ Size(radSpec) >= 2
    /\ Size(parSpec) >= 3
    /\ Len(xyzs) = Size(radSpec) * Size(parSpec)
    /\ xyzs[2] = GridPointAt(0, 1)
    /\ xyzs[2] # GridPointAt(1, 0)

(***************************************************************************)
(* Claims about the solver, checked under SpecSolver                       *)
(***************************************************************************)
TheShape == earth.theEllip.theShapeOrig

TheMuSqs == TheShape.theMuSqs

IsSphereShape == TheMuSqs[1] = TheMuSqs[2] /\ TheMuSqs[2] = TheMuSqs[3]

\* C4: for x on the surface (sum of muSq[k] x[k]^2 = 1, all muSq[k] > 0) eta0
\* is 0, the correction is 0 and pVecViaExcess returns x itself.
C4_SurfacePointFixed ==
    (sol # <<>> /\ (\A k \in 1..3 : Lt(Zero, TheMuSqs[k]))
                /\ ShapeFunction(TheShape, xVec) = One) =>
        /\ sol.eta0 = Zero
        /\ sol.correction = Zero
        /\ sol.pVec = xVec

\* C5: on a sphere, for x outside it, the foot point of pVecViaExcess is the
\* exact foot point and the excess of test1 is 0, both up to the rounding of
\* a few operations on numbers of the size of |x|.
C5_SphereExact ==
    (sol # <<>> /\ t1 # <<>> /\ IsSphereShape
                /\ Lt(One, ShapeFunction(TheShape, xVec))) =>
        /\ Within(t1.extra, Zero, 3, magnitude(xVec))
        /\ \A k \in 1..3 : Within(sol.pVec[k], t1.pVec[k], 3, magnitude(xVec))

\* C10: pVecViaExcess hands radiusToward the unit direction of x, and its
\* radial surface point r is the one test1 computes for the same x.
C10_SameRadialPoint ==
    (sol # <<>> /\ t1 # <<>>) =>
        /\ sol.radArg = unit(xVec)
        /\ t1.radArg = unit(xVec)
        /\ sol.rVec = t1.rVec

(***************************************************************************)
(* Claims about the harness, checked under Spec                            *)
(***************************************************************************)
\* C6: test1 returns 0 and main returns 0 when nothing failed (no point of
\* these runs fails: checkXYZ returns 0 for every point).
C6_ZeroOnSuccess ==
    /\ pc = "main_after_test1" => ret = 0
    /\ pc = "done" => mainErr = 0

ReportLines == SelectSeq(ostrm, LAMBDA l : l[1] \in {"minExcess", "maxExcess"})

\* How many entries of seq equal v.
Count(seq, v) == Cardinality({n \in 1..Len(seq) : seq[n] = v})

\* C7: test1 reports only after the loop over all grid points; the excess
\* values then hold exactly one entry per grid point, the reported minimum is
\* no larger and the reported maximum no smaller than the excess of any
\* point, and nothing is reported for an empty grid.
C7_ReportAfterAllPoints ==
    /\ pc \in {"main", "test1_loop"} => ReportLines = <<>>
    /\ pc \in {"main_after_test1", "test2_loop", "done"} =>
         \A perPoint \in {[n \in 1..Len(xyzs) |-> Test1Body(xyzs[n], earth).extra]} :
             /\ Len(xyzs) = Size(radSpec) * Size(parSpec)
             /\ Len(extras) = Len(xyzs)
             /\ \A n \in 1..Len(xyzs) :
                  Count(extras, perPoint[n]) = Count(perPoint, perPoint[n])
             /\ IF xyzs = <<>>
                THEN ostrm = <<>>
                ELSE /\ Len(ostrm) = Len(xyzs) + 2
                     /\ ostrm[Len(xyzs) + 1][1] = "minExcess"
                     /\ ostrm[Len(xyzs) + 2][1] = "maxExcess"
                     /\ Len(ReportLines) = 2
                     /\ \A n \in 1..Len(xyzs) :
                          /\ Le(ostrm[Len(xyzs) + 1][2], perPoint[n])
                          /\ Le(perPoint[n], ostrm[Len(xyzs) + 2][2])
                     /\ \E n \in 1..Len(xyzs) : ostrm[Len(xyzs) + 1][2] = perPoint[n]
                     /\ \E n \in 1..Len(xyzs) : ostrm[Len(xyzs) + 2][2] = perPoint[n]

\* test1 has returned over a grid of at least four points whose excess values
\* were not computed in ascending order, and has reported a minimum below the
\* maximum.
C7_Witness ==
    /\ pc = "main_after_test1"
    /\ Len(xyzs) >= 4
    /\ Len(ostrm) = Len(xyzs) + 2
    /\ Lt(ostrm[Len(xyzs) + 1][2], ostrm[Len(xyzs) + 2][2])
    /\ \E n \in 1..(Len(xyzs) - 1) :
         Lt(Test1Body(xyzs[n + 1], earth).extra, Test1Body(xyzs[n], earth).extra)

\* The grid point of 1-based position n, from the sample specs.
GridPointOf(n) ==
    GridPointAt((n - 1) \div Size(radSpec), (n - 1) % Size(radSpec))

\* The distance between the foot point of pVecViaExcess and the exact one.
FootPointError(x) ==
    The({magnitude(VSub(pVecGot, pVecExp)) :
             pVecGot \in {pVecViaExcess(x, earth).pVec},
             pVecExp \in {FootPoint(x, TheShape)}})

\* C8: test2 calls checkXYZ once per grid point, in grid order; each call
\* records the magnitude of the difference between the foot point of
\* pVecViaExcess and the foot point of the exact transform; when test2
\* returns there is one record per grid point.
C8_OneRecordPerPoint ==
    /\ pc \in {"main", "test1_loop", "main_after_test1"} => ofsDifPVec = <<>>
    /\ pc \in {"test2_loop", "done"} =>
         /\ Len(ofsDifPVec) = nxt - 1
         /\ \A n \in 1..Len(ofsDifPVec) : \A x \in {GridPointOf(n)} :
              ofsDifPVec[n].pMagDif = FootPointError(x)
    /\ pc = "done" => Len(ofsDifPVec) = Size(radSpec) * Size(parSpec)

\* test2 has returned over a grid of at least four points, with a record of
\* a nonzero foot-point error.
C8_Witness ==
    /\ pc = "done"
    /\ Len(ofsDifPVec) >= 4
    /\ Len(ofsDifPVec) = Size(radSpec) * Size(parSpec)
    /\ \E n \in 1..Len(ofsDifPVec) : Lt(Zero, ofsDifPVec[n].pMagDif)

(***************************************************************************)
(* Claim about reordering, checked under SpecPar                           *)
(***************************************************************************)
\* The excess values of the sequential loop of test1, sorted.
SequentialExtras == SortLoop([n \in 1..Len(xyzs) |-> Test1Body(xyzs[n], earth).extra], <<>>)

MaxCapacity == 8

\* samplesFor / samplesAccordingTo of either file, or Samples(spec), which
\* only demoExcess.cpp has.
InitGen ==
    /\ sspec \in Impls \X (0..MaxNum) \X SampleRanges
    /\ pc \in IF sspec[1] = "demoExcess" THEN {"samplesFor", "Samples"}
              ELSE {"samplesFor"}
    /\ ndx = 0
    /\ samps = <<>>
    /\ probe = <<>>
    /\ GridIdle /\ HarnessIdle /\ SolverIdle /\ ParIdle /\ BulkIdle

\* One pass of the for loop of Samples::samplesFor: its condition is
\* spec.size(), true for every size but 0, whatever ndx is.
SamplesCtorStep ==
    /\ pc = "Samples"
    /\ Size(TheSpec) # 0
    /\ Len(samps) < MaxCapacity
    /\ samps' = Append(samps, ValueAtIndex(TheSpec, ndx))
    /\ ndx' = ndx + 1
    /\ UNCHANGED <<bulkVars, pc, sspec, probe, gridVars, harnessVars, solverVars, parVars>>

\* The vector cannot grow any more: emplace_back throws.
SamplesCtorBadAlloc ==
    /\ pc = "Samples"
    /\ Size(TheSpec) # 0
    /\ Len(samps) = MaxCapacity
    /\ pc' = "bad_alloc"
    /\ UNCHANGED <<bulkVars, sampleVars, gridVars, harnessVars, solverVars, parVars>>

\* The loop condition fails: theSamps is initialised, the object constructed.
SamplesCtorReturn ==
    /\ pc = "Samples"
    /\ Size(TheSpec) = 0
    /\ pc' = "constructed"
    /\ UNCHANGED <<bulkVars, sampleVars, gridVars, harnessVars, solverVars, parVars>>

NextGen ==
    \/ SamplesForStep
    \/ SamplesForReturn
    \/ SamplesCtorStep
    \/ SamplesCtorBadAlloc
    \/ SamplesCtorReturn

SpecGen == InitGen /\ [][NextGen]_vars

\* C11: every generator (samplesFor, samplesAccordingTo, Samples(spec)) ends
\* with exactly spec.size() values, the value of index i being
\* valueAtIndex(i), and never reads an index >= spec.size().
C11_ExactlySizeValues ==
    /\ Len(samps) <= SNum
    /\ pc # "bad_alloc"
    /\ pc \in {"returned", "constructed"} =>
         /\ Len(samps) = SNum
         /\ \A i \in 0..(SNum - 1) : samps[i + 1] = ValueAtIndex(TheSpec, i)

(***************************************************************************)
(* Bulk samples of periSim.h                                               *)
(***************************************************************************)
\* std::numeric_limits<double>::epsilon(): the gap between 1 and the next double.
epsilon == Norm(1, 1 - MantBits)

sEndFrac == Sub(One, epsilon)

sRangeLon == <<NegF(pi), Mul(sEndFrac, pi)>>

sRangePar == <<Mul(Lit(-1, -1), pi), Mul(Half, pi)>>

\* The loop "fill bulk points" of bulkSamplesLon and bulkSamplesPar, up to num.
RECURSIVE BulkFill(_, _, _, _)
BulkFill(spec, num, nn, filled) ==
    IF nn < num
    THEN BulkFill(spec, num, nn + 1, Append(filled, SimValueAtIndex(spec, nn)))
    ELSE filled

\* The key values firstly, then the loop over nn < lonSpec.size().
BulkLonFrom(lonSpec) ==
    BulkFill(lonSpec, SimSize(lonSpec), 0, <<SimFirst(lonSpec), Zero, SimLast(lonSpec)>>)

bulkSamplesLon(numBulk) == BulkLonFrom(SimSampleSpec(numBulk, sRangeLon))

\* The key values firstly, then the loop over nn < numBulk.
bulkSamplesPar(numBulk) ==
    BulkFill(SimSampleSpec(numBulk, sRangePar), numBulk, 0,
             <<Mul(Lit(-1, -1), pi), Mul(Lit(-1, -2), pi), Zero,
               Mul(Lit(1, -2), pi), Mul(Half, pi)>>)

\* The loop "fill bulk points" of bulkSamplesAlt.
RECURSIVE AltFill(_, _, _, _, _)
AltFill(alt0, altDelta, numBulk, nn, filled) ==
    IF nn < numBulk
    THEN AltFill(alt0, altDelta, numBulk, nn + 1,
                 Append(filled, Add(alt0, Mul(FromInt(nn), altDelta))))
    ELSE filled

\* altDelta is 2.e+5 / numBulk (infinite for numBulk = 0, and then not used).
bulkSamplesAlt(numBulk) ==
    AltFill(Lit(-100000, 0), Div(Lit(200000, 0), FromInt(numBulk)), numBulk, 0,
            <<Lit(-100000, 0), Zero, Lit(100000, 0)>>)

\* What the innermost loop of comboSamplesLpa appends: one triple per
\* altitude, in the order of altSamples.
ComboAltLoop(lonSamp, parSamp, altSamples) ==
    [c \in 1..Len(altSamples) |-> <<lonSamp, parSamp, altSamples[c]>>]

\* What the middle loop appends from position b on.
RECURSIVE ComboParLoop(_, _, _, _)
ComboParLoop(lonSamp, parSamples, altSamples, b) ==
    IF b > Len(parSamples) THEN <<>>
    ELSE ComboAltLoop(lonSamp, parSamples[b], altSamples)
             \o ComboParLoop(lonSamp, parSamples, altSamples, b + 1)

\* What the outer loop appends from position a on.
RECURSIVE ComboLonLoop(_, _, _, _)
ComboLonLoop(lonSamples, parSamples, altSamples, a) ==
    IF a > Len(lonSamples) THEN <<>>
    ELSE ComboParLoop(lonSamples[a], parSamples, altSamples, 1)
             \o ComboLonLoop(lonSamples, parSamples, altSamples, a + 1)

\* The loops nested the other way: altitude outermost, longitude innermost.
comboSamplesLpaAltOuter(lonSamples, parSamples, altSamples) ==
    [n \in 1..(Len(lonSamples) * Len(parSamples) * Len(altSamples)) |->
        <<lonSamples[((n - 1) % Len(lonSamples)) + 1],
          parSamples[(((n - 1) \div Len(lonSamples)) % Len(parSamples)) + 1],
          altSamples[((n - 1) \div (Len(lonSamples) * Len(parSamples))) + 1]>>]

comboSamplesLpa(lonSamples, parSamples, altSamples) ==
    ComboLonLoop(lonSamples, parSamples, altSamples, 1)

bulkSamplesLpa(lonBulk, parBulk, altBulk) ==
    comboSamplesLpa(bulkSamplesLon(lonBulk), bulkSamplesPar(parBulk),
                    bulkSamplesAlt(altBulk))

(***************************************************************************)
(* Bulk runs: one call of bulkSamplesLpa, statement by statement           *)
(***************************************************************************)
\* Largest bulk count of a bulk run.
MaxBulk == 3

InitBulk ==
    /\ pc = "bulkSamplesLpa"
    /\ bulk \in (0..MaxBulk) \X (0..MaxBulk) \X (0..MaxBulk)
    /\ lonSamps = <<>> /\ parSamps = <<>> /\ altSamps = <<>> /\ lpas = <<>>
    /\ SampleIdle /\ GridIdle /\ HarnessIdle /\ SolverIdle /\ ParIdle

BulkSamplesLonCall ==
    /\ pc = "bulkSamplesLpa"
    /\ lonSamps' = bulkSamplesLon(bulk[1])
    /\ pc' = "bulk_par"
    /\ UNCHANGED <<bulk, parSamps, altSamps, lpas, sampleVars, gridVars, harnessVars,
                   solverVars, parVars>>

BulkSamplesParCall ==
    /\ pc = "bulk_par"
    /\ parSamps' = bulkSamplesPar(bulk[2])
    /\ pc' = "bulk_alt"
    /\ UNCHANGED <<bulk, lonSamps, altSamps, lpas, sampleVars, gridVars, harnessVars,
                   solverVars, parVars>>

BulkSamplesAltCall ==
    /\ pc = "bulk_alt"
    /\ altSamps' = bulkSamplesAlt(bulk[3])
    /\ pc' = "bulk_combo"
    /\ UNCHANGED <<bulk, lonSamps, parSamps, lpas, sampleVars, gridVars, harnessVars,
                   solverVars, parVars>>

ComboSamplesLpaCall ==
    /\ pc = "bulk_combo"
    /\ lpas' = comboSamplesLpa(lonSamps, parSamps, altSamps)
    /\ pc' = "bulkReturned"
    /\ UNCHANGED <<bulk, lonSamps, parSamps, altSamps, sampleVars, gridVars,
                   harnessVars, solverVars, parVars>>

NextBulk ==
    \/ BulkSamplesLonCall
    \/ BulkSamplesParCall
    \/ BulkSamplesAltCall
    \/ ComboSamplesLpaCall

SpecBulk == InitBulk /\ [][NextBulk]_vars

\* v is an element of seq.
Contains(seq, v) == \E n \in 1..Len(seq) : seq[n] = v

\* C12: bulkSamplesLpa returns (lonBulk+3)*(parBulk+5)*(altBulk+3) triples,
\* the full product of the three lists with the longitude outermost and the
\* altitude innermost; the longitude list holds both ends of its range and
\* 0, the parallel list -pi/2, -pi/4, 0, pi/4 and pi/2, the altitude list
\* -100000, 0 and 100000, and every altitude lies within [-100000, 100000].
C12_BulkProduct ==
    pc = "bulkReturned" =>
        /\ Len(lonSamps) = bulk[1] + 3
        /\ Len(parSamps) = bulk[2] + 5
        /\ Len(altSamps) = bulk[3] + 3
        /\ Len(lpas) = (bulk[1] + 3) * (bulk[2] + 5) * (bulk[3] + 3)
        /\ \A a \in 1..Len(lonSamps) : \A b \in 1..Len(parSamps) :
             \A c \in 1..Len(altSamps) :
               lpas[((a - 1) * Len(parSamps) + (b - 1)) * Len(altSamps) + c]
                   = <<lonSamps[a], parSamps[b], altSamps[c]>>
        /\ Contains(lonSamps, NegF(pi))
        /\ Contains(lonSamps, Mul(sEndFrac, pi))
        /\ Contains(lonSamps, Zero)
        /\ Contains(parSamps, Mul(Lit(-1, -1), pi))
        /\ Contains(parSamps, Mul(Lit(-1, -2), pi))
        /\ Contains(parSamps, Zero)
        /\ Contains(parSamps, Mul(Lit(1, -2), pi))
        /\ Contains(parSamps, Mul(Lit(1, -1), pi))
        /\ Contains(altSamps, Lit(-100000, 0))
        /\ Contains(altSamps, Zero)
        /\ Contains(altSamps, Lit(100000, 0))
        /\ \A c \in 1..Len(altSamps) :
             Le(Lit(-100000, 0), altSamps[c]) /\ Le(altSamps[c], Lit(100000, 0))

\* A returned bulk run with bulk points in all three lists, one of them an
\* altitude strictly between the key values and away from 0.
C12_Witness ==
    /\ pc = "bulkReturned"
    /\ bulk[1] >= 1 /\ bulk[2] >= 1 /\ bulk[3] >= 2
    /\ Len(lpas) = (bulk[1] + 3) * (bulk[2] + 5) * (bulk[3] + 3)
    /\ \E c \in 4..Len(altSamps) :
         /\ Lt(Lit(-100000, 0), altSamps[c])
         /\ Lt(altSamps[c], Lit(100000, 0))
         /\ ~IsZero(altSamps[c])
====
